---- MODULE Spec2Model ----
(***************************************************************************)
(* Model of scripts/backfill-graphiti.js: the historical ("backfill")     *)
(* ingestion run with its checkpoint file, the legacy state import, the    *)
(* batch submitter with its retry loop and the run-global delay.           *)
(*                                                                         *)
(* One process runs at a time.  A run is: module start (flags, loadState,  *)
(* mergeLegacyCaptureState, saveState), then backfill()'s file loop, then  *)
(* the final summary.  The process may be killed between any two steps and *)
(* inside fs.writeFileSync.                                                *)
(*                                                                         *)
(* The file also holds the auto-capture script (lines 554-717), the        *)
(* incremental run that cron starts: it keeps one cursor timestamp per     *)
(* session file in STATE_FILE, which is the backfill's legacy state file.  *)
(***************************************************************************)
EXTENDS Integers, Sequences, FiniteSets, TLC

\* ------------------------------------------------------------ constants
BATCH_SIZE == 5
DEFAULT_RATE_LIMIT_MS == 1500
MAX_RATE_LIMIT_MS == 30000
MIN_MESSAGES == 3
maxAttempts == 5

\* ---------------------------------------------------------------- bounds
NumFiles == 2     \* session files found in the directories
MaxExtra == 3     \* the largest file holds BATCH_SIZE + MaxExtra messages
MaxRuns == 2      \* process starts in one behaviour
MaxFaults == 1    \* failed submission attempts per run (Spec)
MaxRateFaults == 6 \* failed submission attempts per run (SpecRate)
MaxClock == 5     \* the wall clock stops here (SpecCapture)
MaxCaptures == 4  \* auto-capture starts in one behaviour (SpecCapture)
MaxLog == 7       \* qualifying message entries per session file (SpecCapture)

Files == 1..NumFiles

\* Message counts a file may hold: below the minimum, exactly the minimum
\* (one batch), and more than one batch.
MsgCounts == {MIN_MESSAGES - 1, MIN_MESSAGES, BATCH_SIZE + MaxExtra}

\* Session line of a file: dated before --since, or not.
Metas == {"old", "new"}

\* The configured directories, in the order the run lists them.
SESSIONS_DIRS == <<"sessions", "chatlogs">>
DirNames == {SESSIONS_DIRS[k] : k \in 1..Len(SESSIONS_DIRS)}

\* What a directory is to the process: it lists, it does not exist, or it
\* exists and readdirSync throws on it (no permission).
DirStates == {"readable", "missing", "unlistable"}
AllReadable == [d \in DirNames |-> "readable"]

Min(a, b) == IF a < b THEN a ELSE b
Max(a, b) == IF a > b THEN a ELSE b

\* A flag of the command line: absent, or present with a parsed integer.
NoFlag == [set |-> FALSE, nan |-> FALSE, val |-> 0]
Flag(n) == [set |-> TRUE, nan |-> FALSE, val |-> n]
NaNFlag == [set |-> TRUE, nan |-> TRUE, val |-> 0]

\* --limit N values tried
LimitFlags == {NoFlag, Flag(1)}
\* --rate-limit-ms values tried in the multi-run specification
DelayFlags == {NoFlag}
\* --rate-limit-ms values tried in the rate-governor specification
RateDelayFlags == {NoFlag, NaNFlag, Flag(-5), Flag(0), Flag(1), Flag(20000), Flag(40000)}

VARIABLES
  fileMsgs,     \* file -> number of qualifying messages in it
  fileMeta,     \* file -> its session line
  dirs,         \* configured directory -> its state
  other,        \* a second process of the backfill script: its memory
  disk,         \* content of STATE_PATH
  legacy,       \* content of LEGACY_CAPTURE_STATE_PATH, the auto-capture STATE_FILE
  pc,           \* "idle" | "loop" | "batch" | "done" | "crashed" | "fatal"
  run,          \* number of process starts so far
  DRY_RUN, LIMIT, SINCE, rateLimitMs,
  initialDelayMs, \* rateLimitMs as the run printed it at its start
  summary,      \* the stats file this process has written, if it has
  state,        \* the in-memory checkpoint object
  stats,        \* the run counters
  idx,          \* file loop index (1-based)
  i,            \* offset of the current batch in the file's messages
  attempt,      \* attempt number inside embedBatch
  \* -- observation of the run (not read by the program) --
  att,          \* file -> offset -> fetch calls made for that batch this run
  acc,          \* file -> offsets of the batches accepted this run
  failedOff,    \* file -> offsets of the batches finally failed this run
  outcome,      \* file -> what the loop decided for it this run
  faults,       \* failed attempts and read errors seen this run
  lastRL,       \* the last step received a rate-limited HTTP response
  lastFailure,  \* the response that failed the attempt made by the last step
  sleptMs,      \* argument of the last sleep() since the last fetch, or NoSleep
  diskAtStart,  \* content of STATE_PATH when the process started
  everProcessed,\* files whose processed entry a completed save persisted
  prev,         \* summary of the previous run
  \* -- the auto-capture script and the growing session files --
  sessLog,      \* file -> timestamps of its qualifying message entries, in file order
  clock,        \* the wall clock
  captures,     \* number of auto-capture starts so far
  cpc,          \* "idle" | "files" | "batches" | "exited"
  cState,       \* state.processedFiles of the running auto-capture
  todo,         \* files of the run's list not yet visited
  cFile,        \* the file at hand
  cMsgs,        \* the messages extracted from it
  cI,           \* offset of the current batch in cMsgs
  \* -- observation of the auto-capture runs (not read by the program) --
  sentBefore,   \* file -> entries extracted and submitted by earlier runs
  sentNow,      \* file -> entries extracted and submitted by this run
  unaccepted,   \* file -> entries submitted in a batch the sink has not accepted
  cursorLog,    \* file -> the successive cursors recorded for it in STATE_FILE
  groupLog      \* file -> the group ids the auto-capture submitted it under

vars == <<fileMsgs, fileMeta, dirs, other, disk, legacy, pc, run, DRY_RUN, LIMIT, SINCE,
          initialDelayMs, summary,
          rateLimitMs, state, stats, idx, i, attempt, att, acc, failedOff,
          outcome, faults, lastRL, lastFailure, sleptMs, diskAtStart,
          everProcessed, prev, sessLog, clock, captures, cpc, cState, todo, cFile,
          cMsgs, cI, sentBefore, sentNow, unaccepted, cursorLog, groupLog>>

\* --------------------------------------------------------- checkpoint file
EmptyMap == [f \in {} |-> 0]

EmptyState == [processed |-> EmptyMap, skipped |-> EmptyMap, failed |-> EmptyMap]

MissingFile == [status |-> "missing", processed |-> EmptyMap, skipped |-> EmptyMap,
                failed |-> EmptyMap, updatedAt |-> 0]
\* An empty or half-written file: JSON.parse throws on it.
CorruptFile == [status |-> "corrupt", processed |-> EmptyMap, skipped |-> EmptyMap,
                failed |-> EmptyMap, updatedAt |-> 0]

\* JSON.stringify(state) written at clock t.
FileOf(st, t) == [status |-> "valid", processed |-> st.processed, skipped |-> st.skipped,
                  failed |-> st.failed, updatedAt |-> t]

\* loadState that forgets the failed map of a valid file.
loadStateDropFailed(d) ==
  IF d.status = "valid"
  THEN [processed |-> d.processed, skipped |-> d.skipped, failed |-> EmptyMap]
  ELSE EmptyState

loadState(d) ==
  IF d.status = "valid"
  THEN [processed |-> d.processed, skipped |-> d.skipped, failed |-> d.failed]
  ELSE EmptyState

Put(m, f, e) == [g \in (DOMAIN m) \cup {f} |-> IF g = f THEN e ELSE m[g]]
Del(m, f) == [g \in (DOMAIN m) \ {f} |-> m[g]]

\* ------------------------------------------------------------- the flags
\* rateLimitMs as the module computes it from --rate-limit-ms.
InitialRateLimit(fl) ==
  IF ~fl.set THEN DEFAULT_RATE_LIMIT_MS
  ELSE IF fl.nan THEN DEFAULT_RATE_LIMIT_MS
  ELSE Max(0, fl.val)

\* The limit test letting one file too many through.
LimitReachedLate(n, fl) == fl.set /\ ~fl.nan /\ n > fl.val

\* stats.filesProcessed >= LIMIT, LIMIT being Infinity without the flag.
LimitReached(n, fl) == fl.set /\ ~fl.nan /\ n >= fl.val

\* ---------------------------------------------------------- legacy import
LegacyMissing == [status |-> "missing", processedFiles |-> EmptyMap]
LegacyCorrupt == [status |-> "corrupt", processedFiles |-> EmptyMap]

LegacyEntry == [groupId |-> "legacy-import", messages |-> -1]

\* The files mergeLegacyCaptureState adds to stateObj.processed.
LegacyAdded(st, leg) ==
  IF leg.status = "valid"
  THEN {f \in DOMAIN leg.processedFiles :
          f \notin DOMAIN st.processed /\ f \notin DOMAIN st.skipped}
  ELSE {}

\* mergeLegacyCaptureState without the test of line 126: every listed file
\* gets the import entry, whatever the state holds for it.
mergeLegacyOverwrite(st, leg) ==
  LET listed == IF leg.status = "valid" THEN DOMAIN leg.processedFiles ELSE {}
  IN [st EXCEPT !.processed =
        [f \in (DOMAIN st.processed) \cup listed |->
           IF f \in listed THEN LegacyEntry ELSE st.processed[f]]]

mergeLegacyCaptureState(st, leg) ==
  [st EXCEPT !.processed =
     [f \in (DOMAIN st.processed) \cup LegacyAdded(st, leg) |->
        IF f \in DOMAIN st.processed THEN st.processed[f] ELSE LegacyEntry]]

\* saveState without its DRY_RUN guard.
saveStateAlways(dry, st, d, t) == FileOf(st, t)

\* saveState: what STATE_PATH holds after the call returns.
saveState(dry, st, d, t) == IF dry THEN d ELSE FileOf(st, t)

\* ------------------------------------------------------------- the files
getGroupId(meta) ==
  IF meta = "none" THEN "tom-kit-unknown"
  ELSE IF meta = "undated" THEN "tom-kit-dm-unknown"
  ELSE IF meta = "old" THEN "tom-kit-dm-old" ELSE "tom-kit-dm-new"

\* The --since test: the session is dated before the cutoff.
BeforeSince(since, meta) == since /\ meta = "old"

Offsets(n) == {o \in 0..n : o % BATCH_SIZE = 0 /\ o < n}
AllOffsets == Offsets(BATCH_SIZE + MaxExtra)
\* A batch that is always BATCH_SIZE long, the last one included.
BatchLenWhole(n, o) == BATCH_SIZE

BatchLen(n, o) == Min(BATCH_SIZE, n - o)

\* The processed check dropped: the loop does not consult the checkpoint.
isProcessedNever(st, f) == FALSE

isProcessed(st, f) == f \in DOMAIN st.processed
\* A failed entry taken for a terminal one.
isSkippedOrFailed(st, f) == f \in DOMAIN st.skipped \/ f \in DOMAIN st.failed

isSkipped(st, f) == f \in DOMAIN st.skipped

\* ---------------------------------------------------------- the responses
Statuses == {200, 202, 400, 429, 500}

\* What one fetch yields: an HTTP response (status, and whether its body
\* carries rate-limit phrasing) or a thrown error (an abort by the 30 s
\* timer, or an error whose message may carry "rate limit").
Responses ==
  [kind : {"http"}, status : Statuses, rlText : BOOLEAN, abort : {FALSE}]
  \cup [kind : {"throw"}, status : {0}, rlText : BOOLEAN, abort : BOOLEAN]

\* No attempt failed in the last step.
NoResponse == [kind |-> "none", status |-> 0, rlText |-> FALSE, abort |-> FALSE]

\* No sleep() was awaited since the last fetch.
NoSleep == -1

Accepted(r) == r.kind = "http" /\ ((r.status >= 200 /\ r.status <= 299) \/ r.status = 202)

isRateLimit(status, bodyRL) == status = 429 \/ bodyRL

\* rateLimited as each branch of embedBatch computes it.
RateLimited(r) ==
  IF r.kind = "http" THEN isRateLimit(r.status, r.rlText)
  ELSE ~r.abort /\ r.rlText

\* Math.round(d * 1.5) for an integer d >= 0.
RoundTimes15(d) == (3 * d + 1) \div 2

\* The delay after a rate-limited attempt.
NextDelay(d) == Min(RoundTimes15(d), MAX_RATE_LIMIT_MS)

\* The delay escalated after every failed attempt.
DelayEscalatesAlways(r, d) == NextDelay(d)

DelayAfter(r, d) == IF RateLimited(r) THEN NextDelay(d) ELSE d

\* The retry condition with every failed response retried.
ShouldRetryAny(r, a) == a < maxAttempts

\* The condition under which embedBatch counts a retry, sleeps and continues.
ShouldRetry(r, a) ==
  IF r.kind = "http"
  THEN (RateLimited(r) \/ r.status >= 500) /\ a < maxAttempts
  ELSE RateLimited(r) \/ a < maxAttempts

\* The for loop's condition, the bound forgotten.
LoopContinuesUnbounded(a) == TRUE

\* The for loop's condition.
LoopContinues(a) == a <= maxAttempts

\* Another fetch follows this failed attempt.
TriesAgain(r, a) == ShouldRetry(r, a) /\ LoopContinues(a + 1)

\* ------------------------------------------------------------ the stats
ZeroStats ==
  [filesTotal |-> 0, filesSeen |-> 0, filesProcessed |-> 0, filesSkipped |-> 0,
   filesAlreadyProcessed |-> 0, filesAlreadySkipped |-> 0, filesFailed |-> 0,
   messagesExtracted |-> 0, messagesEmbedded |-> 0, batchesSent |-> 0,
   batchesFailed |-> 0, retries |-> 0, rateLimitHits |-> 0]

NoAttempts == [f \in Files |-> [o \in AllOffsets |-> 0]]
NoOffsets == [f \in Files |-> {}]
NoOutcome == [f \in Files |-> "none"]

\* Lines 527-546: what the run writes to statsPath, the counters and the
\* delay it ended with.
statsFileStale(s, d) == [written |-> TRUE, stats |-> s, finalDelayMs |-> DEFAULT_RATE_LIMIT_MS]

statsFile(s, d) == [written |-> TRUE, stats |-> s, finalDelayMs |-> d]
NoSummary == [written |-> FALSE, stats |-> ZeroStats, finalDelayMs |-> 0]

\* The second process before it is started.
OtherOff == [pc |-> "off", state |-> EmptyState, idx |-> 0, limit |-> NoFlag,
             filesProcessed |-> 0, outcome |-> NoOutcome]

\* What a specification lets a run choose and the environment do.
Cfg ==
  [dry |-> BOOLEAN, limit |-> LimitFlags, since |-> BOOLEAN, delay |-> DelayFlags,
   runs |-> MaxRuns, kill |-> BOOLEAN, faults |-> MaxFaults]
LiveCfg ==
  [dry |-> BOOLEAN, limit |-> LimitFlags, since |-> BOOLEAN, delay |-> DelayFlags,
   runs |-> MaxRuns, kill |-> {FALSE}, faults |-> MaxFaults]
RateCfg ==
  [dry |-> {FALSE}, limit |-> {NoFlag}, since |-> {FALSE}, delay |-> RateDelayFlags,
   runs |-> 1, kill |-> {FALSE}, faults |-> MaxRateFaults]

\* ----------------------------------------------------------------- Init
\* No process has started yet.
InitProcess ==
  /\ other = OtherOff
  /\ pc = "idle"
  /\ run = 0
  /\ DRY_RUN = FALSE
  /\ LIMIT = NoFlag
  /\ SINCE = FALSE
  /\ rateLimitMs = DEFAULT_RATE_LIMIT_MS
  /\ initialDelayMs = DEFAULT_RATE_LIMIT_MS
  /\ summary = NoSummary
  /\ state = EmptyState
  /\ stats = ZeroStats
  /\ idx = 0
  /\ i = 0
  /\ attempt = 0
  /\ att = NoAttempts
  /\ acc = NoOffsets
  /\ failedOff = NoOffsets
  /\ outcome = NoOutcome
  /\ faults = 0
  /\ lastRL = FALSE
  /\ lastFailure = NoResponse
  /\ sleptMs = NoSleep
  /\ diskAtStart = disk
  /\ everProcessed = {}
  /\ prev = [plain |-> FALSE, full |-> FALSE, flags |-> <<FALSE, NoFlag, FALSE>>]
  /\ captures = 0
  /\ cpc = "idle"
  /\ cState = EmptyMap
  /\ todo = {}
  /\ cFile = 0
  /\ cMsgs = << >>
  /\ cI = 0
  /\ sentBefore = NoOffsets
  /\ sentNow = NoOffsets
  /\ unaccepted = NoOffsets
  /\ cursorLog = [f \in Files |-> << >>]
  /\ groupLog = NoOffsets

Init ==
  /\ fileMsgs \in [Files -> MsgCounts]
  /\ fileMeta \in [Files -> Metas]
  /\ dirs = AllReadable
  /\ disk \in {MissingFile, CorruptFile}
  /\ legacy = LegacyMissing
  /\ sessLog = [f \in Files |-> << >>]
  /\ clock = 1
  /\ InitProcess

\* The rate-governor specification starts from files that all reach the sink.
InitRate ==
  /\ Init
  /\ fileMeta = [f \in Files |-> "new"]

\* The auto-capture script's variables; no step of the backfill touches them.
captureVars == <<sessLog, clock, captures, cpc, cState, todo, cFile, cMsgs, cI,
                 sentBefore, sentNow, unaccepted, cursorLog, groupLog>>

fsVars == <<fileMsgs, fileMeta, dirs, other>>
flagVars == <<DRY_RUN, LIMIT, SINCE, initialDelayMs>>
obsVars == <<att, acc, failedOff, faults, diskAtStart, prev>>

\* Where the process is after a file's save, the loop abandoned.
pcAfterSaveAbort(killed) == "crashed"

\* Where the process is after a file's save: back in the file loop (the
\* continue of lines 420 and 442, the end of the loop body at line 503).
pcAfterSave(killed) == IF killed THEN "crashed" ELSE "loop"

\* fs.writeFileSync(STATE_PATH, ...) of saveState, entered with state st.
\* killed: the process dies between the file's truncation and the end of
\* the write.  Sets disk, everProcessed and pc.
WriteDisk(dry, st, t, killed) ==
  /\ killed => ~dry
  /\ disk' = IF killed THEN CorruptFile ELSE saveState(dry, st, disk, t)
  /\ everProcessed' = IF dry \/ killed THEN everProcessed
                      ELSE everProcessed \cup DOMAIN st.processed

WriteState(dry, st, t, killed) ==
  /\ WriteDisk(dry, st, t, killed)
  /\ pc' = pcAfterSave(killed)

\* Lines 341-356: readdirSync throws on a directory that exists and cannot
\* be listed; a directory that does not exist is passed over.
ListingThrows(ds) == \E d \in DirNames : ds[d] = "unlistable"

\* Line 358: files.length.  The directories mirror each other: every one
\* that lists holds all the session files, and a name counts once.
ListedCount(ds) == IF \E d \in DirNames : ds[d] = "readable" THEN NumFiles ELSE 0

\* Where the process is once backfill() has listed the directories.
pcAfterListing(ds) == IF ListingThrows(ds) THEN "fatal" ELSE "loop"

\* process.exitCode when the process has ended (line 551; 0 otherwise).
exitCode == IF pc = "fatal" THEN 1 ELSE 0

\* The run that just ended completed, was no dry run and met no failure of
\* the sink or of a file read.
PlainRun ==
  /\ pc = "done"
  /\ ~DRY_RUN
  /\ faults = 0
  /\ \A f \in Files : outcome[f] # "parse_error"

\* ... and it reached every file and cut none off by --since.
FullRun ==
  /\ PlainRun
  /\ \A f \in Files : outcome[f] \notin {"none", "since"}

\* ------------------------------------------------------------ module start
\* Lines 32-153 and the head of backfill(): the flags, loadState, the legacy
\* import with its save, the file list.
StartRun(cfg) ==
  /\ pc \in {"idle", "done", "crashed", "fatal"}
  /\ run < cfg.runs
  /\ \E dry \in cfg.dry, lim \in cfg.limit, sin \in cfg.since, dl \in cfg.delay, killed \in cfg.kill :
       LET loaded == loadState(disk)
           merged == mergeLegacyCaptureState(loaded, legacy)
           importedLegacyCount == Cardinality(LegacyAdded(loaded, legacy))
       IN /\ DRY_RUN' = dry
          /\ LIMIT' = lim
          /\ SINCE' = sin
          /\ rateLimitMs' = InitialRateLimit(dl)
          /\ initialDelayMs' = InitialRateLimit(dl)
          /\ state' = merged
          /\ IF importedLegacyCount > 0
             THEN WriteDisk(dry, merged, run + 1, killed)
             ELSE /\ ~killed
                  /\ UNCHANGED <<disk, everProcessed>>
          /\ pc' = IF killed THEN "crashed" ELSE pcAfterListing(dirs)
  /\ run' = run + 1
  /\ summary' = NoSummary
  /\ stats' = IF ListingThrows(dirs) THEN ZeroStats
            ELSE [ZeroStats EXCEPT !.filesTotal = ListedCount(dirs)]
  /\ idx' = 1
  /\ i' = 0
  /\ attempt' = 0
  /\ att' = NoAttempts
  /\ acc' = NoOffsets
  /\ failedOff' = NoOffsets
  /\ outcome' = NoOutcome
  /\ faults' = 0
  /\ lastRL' = FALSE
  /\ lastFailure' = NoResponse
  /\ sleptMs' = NoSleep
  /\ diskAtStart' = disk
  /\ prev' = [plain |-> PlainRun, full |-> FullRun, flags |-> <<DRY_RUN, LIMIT, SINCE>>]
  /\ UNCHANGED <<fsVars, legacy, captureVars>>

\* ------------------------------------------------------------ the file loop
AtFile ==
  /\ pc = "loop"
  /\ idx <= stats.filesTotal
  /\ ~LimitReached(stats.filesProcessed, LIMIT)

\* The file is not counted as seen.
SeenUncounted(s) == s

Seen(s) == [s EXCEPT !.filesSeen = @ + 1]

loopFrame == <<fsVars, legacy, run, flagVars, rateLimitMs, i, attempt, obsVars, sleptMs, summary,
               captureVars>>

\* Lines 378-391.
AlreadyProcessed ==
  /\ AtFile
  /\ isProcessed(state, idx)
  /\ stats' = [Seen(stats) EXCEPT !.filesAlreadyProcessed = @ + 1]
  /\ outcome' = [outcome EXCEPT ![idx] = "already_processed"]
  /\ idx' = idx + 1
  /\ lastRL' = FALSE
  /\ lastFailure' = NoResponse
  /\ UNCHANGED <<loopFrame, pc, state, disk, everProcessed>>

\* Lines 393-406.
AlreadySkipped ==
  /\ AtFile
  /\ ~isProcessed(state, idx)
  /\ isSkipped(state, idx)
  /\ stats' = [Seen(stats) EXCEPT !.filesAlreadySkipped = @ + 1]
  /\ outcome' = [outcome EXCEPT ![idx] = "already_skipped"]
  /\ idx' = idx + 1
  /\ lastRL' = FALSE
  /\ lastFailure' = NoResponse
  /\ UNCHANGED <<loopFrame, pc, state, disk, everProcessed>>

\* The minimum test with the threshold one too low.
tooFewBelow(n) == n < MIN_MESSAGES - 1

\* messages.length < MIN_MESSAGES (line 433).
tooFew(n) == n < MIN_MESSAGES

Unrecorded(st, f) == ~isProcessed(st, f) /\ ~isSkipped(st, f)

\* Lines 408-421: parseSession throws (the file cannot be read).
ParseError(cfg) ==
  /\ AtFile
  /\ Unrecorded(state, idx)
  /\ \E killed \in cfg.kill :
       LET st == [state EXCEPT !.failed =
                    Put(@, idx, [reason |-> "parse_error", messages |-> -1])]
       IN /\ state' = st
          /\ WriteState(DRY_RUN, st, run, killed)
  /\ stats' = [Seen(stats) EXCEPT !.filesFailed = @ + 1]
  /\ outcome' = [outcome EXCEPT ![idx] = "parse_error"]
  /\ idx' = idx + 1
  /\ lastRL' = FALSE
  /\ lastFailure' = NoResponse
  /\ UNCHANGED loopFrame

\* Lines 423-430: the session predates --since; nothing is persisted.
SinceSkip ==
  /\ AtFile
  /\ Unrecorded(state, idx)
  /\ BeforeSince(SINCE, fileMeta[idx])
  /\ stats' = [Seen(stats) EXCEPT !.filesSkipped = @ + 1]
  /\ outcome' = [outcome EXCEPT ![idx] = "since"]
  /\ idx' = idx + 1
  /\ lastRL' = FALSE
  /\ lastFailure' = NoResponse
  /\ UNCHANGED <<loopFrame, pc, state, disk, everProcessed>>

\* Lines 432-443: too few messages.
MinSkip(cfg) ==
  /\ AtFile
  /\ Unrecorded(state, idx)
  /\ ~BeforeSince(SINCE, fileMeta[idx])
  /\ tooFew(fileMsgs[idx])
  /\ \E killed \in cfg.kill :
       LET st == [state EXCEPT !.skipped =
                    Put(@, idx, [reason |-> "min_messages", messages |-> fileMsgs[idx]])]
       IN /\ state' = st
          /\ WriteState(DRY_RUN, st, run, killed)
  /\ stats' = [Seen(stats) EXCEPT !.filesSkipped = @ + 1]
  /\ outcome' = [outcome EXCEPT ![idx] = "min_messages"]
  /\ idx' = idx + 1
  /\ lastRL' = FALSE
  /\ lastFailure' = NoResponse
  /\ UNCHANGED loopFrame

\* Lines 445-455: the file goes to the batch loop.
StartEmbed ==
  /\ AtFile
  /\ Unrecorded(state, idx)
  /\ ~BeforeSince(SINCE, fileMeta[idx])
  /\ ~tooFew(fileMsgs[idx])
  /\ stats' = [Seen(stats) EXCEPT !.messagesExtracted = @ + fileMsgs[idx]]
  /\ outcome' = [outcome EXCEPT ![idx] = "embedding"]
  /\ i' = 0
  /\ attempt' = 1
  /\ pc' = "batch"
  /\ lastRL' = FALSE
  /\ lastFailure' = NoResponse
  /\ UNCHANGED <<fsVars, legacy, run, flagVars, rateLimitMs, idx, state, disk,
                 everProcessed, obsVars, sleptMs, summary, captureVars>>

\* ----------------------------------------------------------- the batch loop
\* Lines 471-491: the file's checkpoint entry and its save.
RecordFile(fileOk, killed) ==
  LET n == fileMsgs[idx]
      st == IF fileOk
            THEN [state EXCEPT
                    !.processed = Put(@, idx, [groupId |-> getGroupId(fileMeta[idx]),
                                               messages |-> n]),
                    !.failed = Del(@, idx)]
            ELSE [state EXCEPT
                    !.failed = Put(@, idx, [reason |-> "batch_failed", messages |-> n])]
  IN /\ state' = st
     /\ outcome' = [outcome EXCEPT ![idx] = IF fileOk THEN "processed" ELSE "batch_failed"]
     /\ WriteState(DRY_RUN, st, run, killed)
     /\ idx' = idx + 1

\* fileOk after embedBatch returned ok (lines 457-462), the reset forgotten.
fileOkKept(fileOk, ok) == fileOk

\* fileOk after embedBatch returned ok (lines 457-462).
fileOkAfter(fileOk, ok) == IF ~ok THEN FALSE ELSE fileOk

AtBatch ==
  /\ pc = "batch"
  /\ i < fileMsgs[idx]

batchFrame == <<fsVars, legacy, run, flagVars, diskAtStart, prev, summary, captureVars>>

\* Lines 239-242 and 464-468: a dry run's embedBatch returns true at once.
DryEmbed ==
  /\ AtBatch
  /\ DRY_RUN
  /\ stats' = [stats EXCEPT !.messagesEmbedded = @ + BatchLen(fileMsgs[idx], i),
                            !.batchesSent = @ + 1]
  /\ i' = i + BATCH_SIZE
  /\ sleptMs' = rateLimitMs
  /\ lastRL' = FALSE
  /\ lastFailure' = NoResponse
  /\ UNCHANGED <<batchFrame, rateLimitMs, idx, attempt, state, disk,
                 everProcessed, pc, att, acc, failedOff, outcome, faults>>

\* The counters and the delay after a failed attempt r (lines 270-287, 291-306).
AfterFailure(s, r, a) ==
  [s EXCEPT !.rateLimitHits = IF RateLimited(r) THEN @ + 1 ELSE @,
            !.retries = IF ShouldRetry(r, a) THEN @ + 1 ELSE @]

\* Lines 254-268 and 464-468: the sink accepts the batch.
SubmitAccepted ==
  /\ AtBatch
  /\ ~DRY_RUN
  /\ \E r \in Responses :
       /\ Accepted(r)
       /\ att' = [att EXCEPT ![idx][i] = @ + 1]
  /\ acc' = [acc EXCEPT ![idx] = @ \cup {i}]
  /\ stats' = [stats EXCEPT !.messagesEmbedded = @ + BatchLen(fileMsgs[idx], i),
                            !.batchesSent = @ + 1]
  /\ i' = i + BATCH_SIZE
  /\ attempt' = 1
  /\ sleptMs' = rateLimitMs
  /\ lastRL' = FALSE
  /\ lastFailure' = NoResponse
  /\ UNCHANGED <<batchFrame, rateLimitMs, idx, state, disk, everProcessed,
                 pc, failedOff, outcome, faults>>

\* Lines 270-287 and 290-306: the attempt fails and another one follows.
SubmitRetried(cfg) ==
  /\ AtBatch
  /\ ~DRY_RUN
  /\ faults < cfg.faults
  /\ \E r \in Responses :
       /\ ~Accepted(r)
       /\ TriesAgain(r, attempt)
       /\ stats' = AfterFailure(stats, r, attempt)
       /\ rateLimitMs' = DelayAfter(r, rateLimitMs)
       /\ lastRL' = (r.kind = "http" /\ RateLimited(r))
       /\ lastFailure' = r
  /\ att' = [att EXCEPT ![idx][i] = @ + 1]
  /\ attempt' = attempt + 1
  /\ sleptMs' = rateLimitMs'
  /\ faults' = faults + 1
  /\ UNCHANGED <<batchFrame, idx, i, state, disk, everProcessed, pc, acc,
                 failedOff, outcome>>

\* Lines 289, 309, 313-323 and 459-462, 481-491: the attempt fails and no
\* other follows; the batch is finally failed and so is the file.
SubmitFinallyFailed(cfg) ==
  /\ AtBatch
  /\ ~DRY_RUN
  /\ faults < cfg.faults
  /\ \E r \in Responses, killed \in cfg.kill :
       /\ ~Accepted(r)
       /\ ~TriesAgain(r, attempt)
       /\ stats' = [AfterFailure(stats, r, attempt) EXCEPT !.batchesFailed = @ + 1,
                                                           !.filesFailed = @ + 1]
       /\ rateLimitMs' = DelayAfter(r, rateLimitMs)
       /\ lastRL' = (r.kind = "http" /\ RateLimited(r))
       /\ lastFailure' = r
       /\ RecordFile(fileOkAfter(TRUE, FALSE), killed)
  /\ att' = [att EXCEPT ![idx][i] = @ + 1]
  /\ failedOff' = [failedOff EXCEPT ![idx] = @ \cup {i}]
  /\ sleptMs' = NoSleep
  /\ faults' = faults + 1
  /\ UNCHANGED <<batchFrame, i, attempt, acc>>

\* Lines 455 and 471-480: no batch is left; the file is processed.
RecordProcessed(cfg) ==
  /\ pc = "batch"
  /\ i >= fileMsgs[idx]
  /\ \E killed \in cfg.kill : RecordFile(TRUE, killed)
  /\ stats' = [stats EXCEPT !.filesProcessed = @ + 1]
  /\ lastRL' = FALSE
  /\ lastFailure' = NoResponse
  /\ UNCHANGED <<batchFrame, rateLimitMs, i, attempt, att, acc, failedOff, faults,
                 sleptMs>>

\* Lines 370-371 and 505-546: the loop ends and the summary is written.
Finish ==
  /\ pc = "loop"
  /\ (idx > stats.filesTotal \/ LimitReached(stats.filesProcessed, LIMIT))
  /\ pc' = "done"
  /\ summary' = statsFile(stats, rateLimitMs)
  /\ lastRL' = FALSE
  /\ lastFailure' = NoResponse
  /\ UNCHANGED <<fsVars, legacy, disk, run, flagVars, rateLimitMs, state, stats, idx,
                 i, attempt, att, acc, failedOff, outcome, faults, sleptMs,
                 diskAtStart, everProcessed, prev, captureVars>>

\* ------------------------------------------------------- the environment
\* The process is killed between two steps; its memory is gone.
Crash ==
  /\ pc \in {"loop", "batch"}
  /\ pc' = "crashed"
  /\ summary' = NoSummary
  /\ state' = EmptyState
  /\ stats' = ZeroStats
  /\ idx' = 0
  /\ i' = 0
  /\ attempt' = 0
  /\ att' = NoAttempts
  /\ acc' = NoOffsets
  /\ failedOff' = NoOffsets
  /\ outcome' = NoOutcome
  /\ faults' = 0
  /\ sleptMs' = NoSleep
  /\ lastRL' = FALSE
  /\ lastFailure' = NoResponse
  /\ UNCHANGED <<fsVars, legacy, disk, run, flagVars, rateLimitMs, diskAtStart,
                 everProcessed, prev, captureVars>>

\* Between two backfill runs the auto-capture script runs and records the
\* files it captured in the legacy state file (lines 686-712).
AutoCapture ==
  /\ pc \in {"done", "crashed"}
  /\ run < MaxRuns
  /\ \E S \in SUBSET Files :
       /\ legacy' = [status |-> "valid",
                     processedFiles |->
                       [f \in (DOMAIN legacy.processedFiles) \cup S |->
                          IF f \in DOMAIN legacy.processedFiles
                          THEN legacy.processedFiles[f] ELSE 1]]
       /\ legacy' # legacy
  /\ UNCHANGED <<fsVars, disk, pc, run, flagVars, rateLimitMs, state, stats, idx,
                 i, attempt, att, acc, failedOff, outcome, faults, lastRL, lastFailure,
                 sleptMs, diskAtStart, everProcessed, prev, summary, captureVars>>

\* ------------------------------------------------- the auto-capture script
\* A message entry without a timestamp field.
NoTs == 0
\* state.processedFiles[file.name] || null: no cursor recorded.
NoCursor == 0

backfillVars == <<fileMsgs, fileMeta, dirs, other, initialDelayMs, summary, disk, pc, run, DRY_RUN, LIMIT, SINCE, rateLimitMs,
                  state, stats, idx, i, attempt, att, acc, failedOff, outcome, faults,
                  lastRL, lastFailure, sleptMs, diskAtStart, everProcessed, prev>>

\* loadState of the auto-capture script: state.processedFiles.
captureLoadState(leg) == IF leg.status = "valid" THEN leg.processedFiles ELSE EmptyMap

lastTsOf(st, f) == IF f \in DOMAIN st THEN st[f] ELSE NoCursor

\* Line 615: lastTimestamp && ts <= lastTimestamp (false for a missing ts).
alreadyCaptured(ts, lastTimestamp) ==
  lastTimestamp # NoCursor /\ ts # NoTs /\ ts <= lastTimestamp

\* The timestamp pushed with the message, the fallback forgotten.
messageTimestampRaw(ts, now) == ts

\* Line 633: ts || new Date().toISOString().
messageTimestamp(ts, now) == IF ts = NoTs THEN now ELSE ts

\* extractNewMessages: the entries of the log that are not skipped, in file
\* order, each with its position in the file and the timestamp pushed.
extractNewMessages(log, lastTimestamp, now) ==
  LET entries == [p \in 1..Len(log) |-> [pos |-> p, ts |-> log[p]]]
      kept == SelectSeq(entries, LAMBDA e : ~alreadyCaptured(e.ts, lastTimestamp))
  IN [k \in 1..Len(kept) |->
        [pos |-> kept[k].pos, timestamp |-> messageTimestamp(kept[k].ts, now)]]

\* new Date() was read while extracting.
UsedNow(log, lastTimestamp) ==
  \E p \in 1..Len(log) : log[p] = NoTs /\ ~alreadyCaptured(log[p], lastTimestamp)

\* The answers tried for the auto-capture's fetch: accepted, refused, thrown.
CaptureResponses ==
  {r \in Responses : r.status \in {0, 200, 500} /\ ~r.rlText /\ ~r.abort}

\* embedBatch of the auto-capture script: response.ok, false on a throw.
captureOk(r) == r.kind = "http" /\ r.status >= 200 /\ r.status <= 299

\* Lines 692-693: the group id of the auto-capture script, the date of the
\* session line or, without one, the date of the day the run is made.
captureGroupId(meta, today) ==
  IF meta \in {"none", "undated"} THEN "tom-kit-dm-" \o ToString(today)
  ELSE IF meta = "old" THEN "tom-kit-dm-old" ELSE "tom-kit-dm-new"

\* The positions of the batch cMsgs.slice(o, o + BATCH_SIZE).
BatchPositions(msgs, o) ==
  {msgs[k].pos : k \in {k \in 1..Len(msgs) : k > o /\ k <= o + BATCH_SIZE}}

\* The run is over: what it submitted is history.
RunOver ==
  /\ sentBefore' = [f \in Files |-> sentBefore[f] \cup sentNow[f]]
  /\ sentNow' = NoOffsets
  /\ cState' = EmptyMap
  /\ todo' = {}
  /\ cFile' = 0
  /\ cMsgs' = << >>
  /\ cI' = 0

\* Lines 664-680: loadState and the list of recently modified files.
CaptureStart ==
  /\ cpc \in {"idle", "exited"}
  /\ captures < MaxCaptures
  /\ captures' = captures + 1
  /\ cState' = captureLoadState(legacy)
  /\ \E S \in SUBSET Files : todo' = S
  /\ cpc' = "files"
  /\ cFile' = 0
  /\ cMsgs' = << >>
  /\ cI' = 0
  /\ UNCHANGED <<backfillVars, legacy, sessLog, clock, sentBefore, sentNow,
                 unaccepted, groupLog, cursorLog>>

\* Lines 686-690: a file without new messages.
CaptureNothingNew ==
  /\ cpc = "files"
  /\ \E f \in todo :
       /\ extractNewMessages(sessLog[f], lastTsOf(cState, f), clock) = << >>
       /\ todo' = todo \ {f}
  /\ UNCHANGED <<backfillVars, legacy, sessLog, clock, captures, cpc, cState, cFile,
                 cMsgs, cI, sentBefore, sentNow, unaccepted, groupLog, cursorLog>>

\* Lines 686-695: a file with new messages goes to the batch loop.
CaptureExtract ==
  /\ cpc = "files"
  /\ \E f \in todo :
       LET messages == extractNewMessages(sessLog[f], lastTsOf(cState, f), clock)
           usedNow == UsedNow(sessLog[f], lastTsOf(cState, f))
       IN /\ messages # << >>
          /\ usedNow => clock < MaxClock
          /\ clock' = IF usedNow THEN clock + 1 ELSE clock
          /\ cFile' = f
          /\ cMsgs' = messages
          /\ todo' = todo \ {f}
  /\ cI' = 0
  /\ cpc' = "batches"
  /\ UNCHANGED <<backfillVars, legacy, sessLog, captures, cState, sentBefore, sentNow,
                 unaccepted, groupLog, cursorLog>>

\* Lines 688 and 717: extractNewMessages throws (the file cannot be read);
\* autoCapture() rejects and the state is not saved.
CaptureReadError ==
  /\ cpc = "files"
  /\ todo # {}
  /\ cpc' = "exited"
  /\ RunOver
  /\ UNCHANGED <<backfillVars, legacy, sessLog, clock, captures, unaccepted, groupLog, cursorLog>>

\* Lines 698-702: one batch is submitted; the result of embedBatch is dropped.
CaptureBatch ==
  /\ cpc = "batches"
  /\ cI < Len(cMsgs)
  /\ \E r \in CaptureResponses :
       LET batch == BatchPositions(cMsgs, cI)
       IN /\ sentNow' = [sentNow EXCEPT ![cFile] = @ \cup batch]
          /\ unaccepted' = [unaccepted EXCEPT ![cFile] =
                              IF captureOk(r) THEN @ \ batch ELSE @ \cup batch]
  /\ groupLog' = [groupLog EXCEPT ![cFile] =
                    @ \cup {captureGroupId(fileMeta[cFile], clock)}]
  /\ cI' = cI + BATCH_SIZE
  /\ UNCHANGED <<backfillVars, legacy, sessLog, clock, captures, cpc, cState, todo,
                 cFile, cMsgs, sentBefore, cursorLog>>

\* Lines 704-708: the cursor of the file is set to the last message's timestamp.
CaptureAdvance ==
  /\ cpc = "batches"
  /\ cI >= Len(cMsgs)
  /\ cState' = Put(cState, cFile, cMsgs[Len(cMsgs)].timestamp)
  /\ cpc' = "files"
  /\ cFile' = 0
  /\ cMsgs' = << >>
  /\ cI' = 0
  /\ UNCHANGED <<backfillVars, legacy, sessLog, clock, captures, todo,
                 sentBefore, sentNow, unaccepted, groupLog, cursorLog>>

\* The cursors of cursorLog after st was written over the file leg.
CursorsRecorded(log, leg, st) ==
  [f \in Files |->
     IF f \in DOMAIN st /\ lastTsOf(captureLoadState(leg), f) # st[f]
     THEN Append(log[f], st[f]) ELSE log[f]]

\* Lines 711-712 and 586-588: the end of the run, fs.writeFileSync(STATE_FILE).
\* killed: the process dies between the file's truncation and the end of
\* the write.
CaptureSave(killed) ==
  /\ cpc = "files"
  /\ todo = {}
  /\ legacy' = IF killed THEN LegacyCorrupt
               ELSE [status |-> "valid", processedFiles |-> cState]
  /\ cursorLog' = IF killed THEN cursorLog ELSE CursorsRecorded(cursorLog, legacy, cState)
  /\ cpc' = "exited"
  /\ RunOver
  /\ UNCHANGED <<backfillVars, sessLog, clock, captures, unaccepted, groupLog>>

\* Between two auto-capture runs the agent appends a message entry to a
\* session file: stamped with the clock, or without a timestamp field.
AppendMessage ==
  /\ cpc \in {"idle", "exited"}
  /\ clock < MaxClock
  /\ \E f \in Files, stamped \in BOOLEAN :
       /\ Len(sessLog[f]) < MaxLog
       /\ sessLog' = [sessLog EXCEPT ![f] = Append(@, IF stamped THEN clock ELSE NoTs)]
  /\ clock' = clock + 1
  /\ UNCHANGED <<backfillVars, legacy, captures, cpc, cState, todo, cFile, cMsgs, cI,
                 sentBefore, sentNow, unaccepted, groupLog, cursorLog>>

\* -------------------------------------------------------- specifications
Next ==
  \/ StartRun(Cfg)
  \/ AlreadyProcessed
  \/ AlreadySkipped
  \/ ParseError(Cfg)
  \/ SinceSkip
  \/ MinSkip(Cfg)
  \/ StartEmbed
  \/ DryEmbed
  \/ SubmitAccepted
  \/ SubmitRetried(Cfg)
  \/ SubmitFinallyFailed(Cfg)
  \/ RecordProcessed(Cfg)
  \/ Finish
  \/ Crash
  \/ AutoCapture

Spec == Init /\ [][Next]_vars

\* One run on a fresh checkpoint without kills, over every --rate-limit-ms
\* value and every response sequence up to MaxRateFaults failed attempts.
NextRate ==
  \/ StartRun(RateCfg)
  \/ ParseError(RateCfg)
  \/ MinSkip(RateCfg)
  \/ StartEmbed
  \/ SubmitAccepted
  \/ SubmitRetried(RateCfg)
  \/ SubmitFinallyFailed(RateCfg)
  \/ RecordProcessed(RateCfg)
  \/ Finish

SpecRate == InitRate /\ [][NextRate]_vars

\* Runs that nothing kills: every process goes on until backfill() returns.
NextLive ==
  \/ StartRun(LiveCfg)
  \/ AlreadyProcessed
  \/ AlreadySkipped
  \/ ParseError(LiveCfg)
  \/ SinceSkip
  \/ MinSkip(LiveCfg)
  \/ StartEmbed
  \/ DryEmbed
  \/ SubmitAccepted
  \/ SubmitRetried(LiveCfg)
  \/ SubmitFinallyFailed(LiveCfg)
  \/ RecordProcessed(LiveCfg)
  \/ Finish

\* The event loop runs a process that is not killed: some step of it is
\* taken whenever one is enabled.
SpecLive == Init /\ [][NextLive]_vars /\ WF_vars(NextLive)

\* The session files as the first auto-capture run finds them: empty, one
\* entry without a timestamp followed by a stamped one, or more stamped
\* entries than one batch holds.
InitLogs ==
  {<< >>, <<NoTs, 1>>, [k \in 1..(BATCH_SIZE + 1) |-> 1]}

InitCapture ==
  /\ fileMsgs = [f \in Files |-> MIN_MESSAGES]
  /\ fileMeta = [f \in Files |-> "new"]
  /\ dirs = AllReadable
  /\ other = OtherOff
  /\ disk = MissingFile
  /\ legacy = LegacyMissing
  /\ pc = "idle"
  /\ run = 0
  /\ DRY_RUN = FALSE
  /\ LIMIT = NoFlag
  /\ SINCE = FALSE
  /\ rateLimitMs = DEFAULT_RATE_LIMIT_MS
  /\ initialDelayMs = DEFAULT_RATE_LIMIT_MS
  /\ summary = NoSummary
  /\ state = EmptyState
  /\ stats = ZeroStats
  /\ idx = 0
  /\ i = 0
  /\ attempt = 0
  /\ att = NoAttempts
  /\ acc = NoOffsets
  /\ failedOff = NoOffsets
  /\ outcome = NoOutcome
  /\ faults = 0
  /\ lastRL = FALSE
  /\ lastFailure = NoResponse
  /\ sleptMs = NoSleep
  /\ diskAtStart = disk
  /\ everProcessed = {}
  /\ prev = [plain |-> FALSE, full |-> FALSE, flags |-> <<FALSE, NoFlag, FALSE>>]
  /\ sessLog \in [Files -> InitLogs]
  /\ clock = 2
  /\ captures = 0
  /\ cpc = "idle"
  /\ cState = EmptyMap
  /\ todo = {}
  /\ cFile = 0
  /\ cMsgs = << >>
  /\ cI = 0
  /\ sentBefore = NoOffsets
  /\ sentNow = NoOffsets
  /\ unaccepted = NoOffsets
  /\ cursorLog = [f \in Files |-> << >>]
  /\ groupLog = NoOffsets

\* The auto-capture runs that cron starts, one after the other, while the
\* session files grow.
NextCapture ==
  \/ CaptureStart
  \/ CaptureNothingNew
  \/ CaptureExtract
  \/ CaptureReadError
  \/ CaptureBatch
  \/ CaptureAdvance
  \/ \E killed \in BOOLEAN : CaptureSave(killed)
  \/ AppendMessage

SpecCapture == InitCapture /\ [][NextCapture]_vars

\* ================================================================ claims
Running == pc \in {"loop", "batch", "done"}
NoFetch == \A f \in Files : \A o \in AllOffsets : att[f][o] = 0

\* The files this run's loop wrote a processed entry for (legacy imports
\* carry the group id "legacy-import" and are not written by the loop).
NewlyProcessed ==
  {f \in DOMAIN state.processed :
     /\ f \notin DOMAIN loadState(diskAtStart).processed
     /\ state.processed[f] # LegacyEntry}

\* C1: in a run that is not a dry run, a file the loop records processed had
\* every one of its batches accepted; a file with a finally failed batch is
\* recorded failed (in memory and in STATE_PATH), is not recorded processed,
\* and no batch after the failed one was submitted.
C1_ProcessedOnlyIfAllAccepted ==
  (Running /\ ~DRY_RUN) =>
    \A f \in Files :
      /\ f \in NewlyProcessed =>
           /\ acc[f] = Offsets(fileMsgs[f])
           /\ failedOff[f] = {}
      /\ failedOff[f] # {} =>
           /\ f \notin DOMAIN state.processed
           /\ f \in DOMAIN state.failed
           /\ state.failed[f].reason = "batch_failed"
           /\ f \in DOMAIN disk.failed
           /\ f \notin DOMAIN disk.processed
           /\ \A b \in failedOff[f] : \A o \in AllOffsets : o > b => att[f][o] = 0

\* C1 witness: a file of several batches was recorded failed after its first
\* batch was accepted and a later one finally failed.
C1_Witness ==
  /\ Running /\ ~DRY_RUN
  /\ \E f \in Files :
       /\ 0 \in acc[f]
       /\ BATCH_SIZE \in failedOff[f]
       /\ f \in DOMAIN disk.failed

\* The checkpoint read at process start holds a batch_failed entry for f.
WasBatchFailed(f) ==
  /\ diskAtStart.status = "valid"
  /\ f \in DOMAIN diskAtStart.failed
  /\ diskAtStart.failed[f].reason = "batch_failed"

\* This run was started with the flags of the one before.
SameFlags == prev.flags = <<DRY_RUN, LIMIT, SINCE>>

\* C2 as stated: a file recorded batch_failed is retried by the next run,
\* which submits its first batch (a run with the same flags that is no dry
\* run, completes and can read the file; the legacy state file does not
\* list the file).
C2_FailedFileRetriedNextRun ==
  \A f \in Files :
    (pc = "done" /\ ~DRY_RUN /\ SameFlags /\ WasBatchFailed(f)
       /\ outcome[f] # "parse_error" /\ f \notin DOMAIN legacy.processedFiles)
      => att[f][0] >= 1

\* C2 amended: a file recorded batch_failed stays eligible.  A run whose loop
\* reaches it treats it as already done only when the legacy state file lists
\* it; otherwise the file is parsed again, and when it is embedded (no read
\* error, not before --since, no dry run) its batches are submitted in order
\* from the first message.
C2_FailedFileEligible ==
  \A f \in Files :
    (Running /\ WasBatchFailed(f) /\ outcome[f] # "none") =>
      /\ outcome[f] \notin {"already_skipped", "min_messages"}
      /\ outcome[f] = "already_processed" => f \in DOMAIN legacy.processedFiles
      /\ (outcome[f] \in {"processed", "batch_failed"} /\ ~DRY_RUN) => att[f][0] >= 1
      /\ \A o \in AllOffsets : att[f][o] > 0 =>
           \A o2 \in AllOffsets : o2 < o => o2 \in acc[f]

\* C2 witness: a file of several batches recorded batch_failed by an earlier
\* run was submitted again from offset 0 and is now processed.
C2_Witness ==
  \E f \in Files :
    /\ pc = "done" /\ ~DRY_RUN
    /\ WasBatchFailed(f)
    /\ diskAtStart.failed[f].messages > BATCH_SIZE
    /\ outcome[f] = "processed"
    /\ att[f][0] >= 1
    /\ f \notin DOMAIN disk.failed

\* C3 as stated: after a completed run (no dry run) without failures, a
\* second run with the same flags and without failures submits nothing.
C3_SecondRunSubmitsNothing ==
  (Running /\ prev.plain /\ SameFlags /\ faults = 0) => NoFetch

\* C3 amended: when the first run was no dry run, met no failure, reached
\* every file (no --limit stop) and cut none off by --since, the second run
\* submits nothing and finds every file it sees recorded in the checkpoint,
\* counted as already processed or already skipped.
C3_Idempotent ==
  (Running /\ prev.full) =>
    /\ NoFetch
    /\ stats.messagesEmbedded = 0
    /\ stats.messagesExtracted = 0
    /\ \A f \in Files : outcome[f] \in {"none", "already_processed", "already_skipped"}
    /\ stats.filesSeen = stats.filesAlreadyProcessed + stats.filesAlreadySkipped
    /\ (pc = "done" /\ ~LimitReached(0, LIMIT)) => stats.filesSeen = NumFiles

\* C3 witness: the second run completed over files of which the first run
\* processed one and skipped another.
C3_Witness ==
  /\ pc = "done" /\ prev.full
  /\ stats.filesAlreadyProcessed >= 1
  /\ stats.filesAlreadySkipped >= 1
  /\ stats.filesSeen = NumFiles

\* C4: outside a dry run the checkpoint file holds the in-memory state
\* whenever the loop is at the top of an iteration (write-through), and a
\* processed entry a completed save persisted is still known to every later
\* process, whatever crash came in between.
C4_WriteThroughSurvivesCrash ==
  /\ (pc = "loop" /\ ~DRY_RUN) => loadState(disk) = state
  /\ Running => everProcessed \subseteq DOMAIN state.processed

\* The first half of C4 alone (write-through).
C4_WriteThrough ==
  (pc = "loop" /\ ~DRY_RUN) => loadState(disk) = state

\* C5: after a crash the checkpoint file is readable unless it was
\* unreadable when the process started, and loading it recovers every
\* processed entry ever persisted.
C5_CrashLeavesReadableFile ==
  pc = "crashed" =>
    /\ disk.status = "corrupt" => diskAtStart.status = "corrupt"
    /\ everProcessed \subseteq DOMAIN loadState(disk).processed

\* C6: within a run the delay never decreases.
C6_DelayNeverDecreases ==
  [][run' = run => rateLimitMs' >= rateLimitMs]_vars

\* C7: a rate-limited HTTP response received while the delay is below the
\* ceiling strictly increases the delay, to min(round(1.5 * delay), ceiling),
\* and counts one rate-limit hit.
C7_RateLimitEscalates ==
  [][(lastRL' /\ rateLimitMs < MAX_RATE_LIMIT_MS) =>
       /\ rateLimitMs' > rateLimitMs
       /\ rateLimitMs' = Min(RoundTimes15(rateLimitMs), MAX_RATE_LIMIT_MS)
       /\ stats'.rateLimitHits = stats.rateLimitHits + 1]_vars

FailedBatches == {fo \in Files \X AllOffsets : fo[2] \in failedOff[fo[1]]}

\* C8: no batch gets more than maxAttempts fetches; a batch whose
\* maxAttempts-th fetch failed is finally failed; batchesFailed counts each
\* finally failed batch once; a finally failed batch gets no further fetch
\* in the run and the loop has left its file.
C8_AtMostFiveAttempts ==
  /\ [](\A f \in Files : \A o \in AllOffsets :
          /\ att[f][o] <= maxAttempts
          /\ (att[f][o] = maxAttempts /\ o \notin acc[f]) => o \in failedOff[f]
          /\ o \in failedOff[f] => ~(pc = "batch" /\ idx = f))
  /\ [](Running => stats.batchesFailed = Cardinality(FailedBatches))
  /\ [][\A f \in Files : \A o \in AllOffsets :
          (o \in failedOff[f] /\ run' = run /\ pc' # "crashed") => att'[f][o] = att[f][o]]_vars

\* C8 witness: a batch was finally failed by its maxAttempts-th fetch.
C8_Witness ==
  \E f \in Files : \E o \in AllOffsets :
    /\ att[f][o] = maxAttempts
    /\ o \in failedOff[f]
    /\ stats.batchesFailed >= 1

\* C9: a dry run makes no fetch and leaves STATE_PATH as it found it.
C9_DryRunTouchesNothing ==
  DRY_RUN => (NoFetch /\ disk = diskAtStart)

\* C9 witness: a completed dry run over a valid checkpoint, with a legacy
\* state file that lists a file to import, which "embedded" messages.
C9_Witness ==
  /\ DRY_RUN /\ pc = "done"
  /\ diskAtStart.status = "valid"
  /\ LegacyAdded(loadState(diskAtStart), legacy) # {}
  /\ stats.messagesEmbedded > 0
  /\ stats.filesProcessed >= 1

\* C10: no filename is in more than one of the processed, skipped and failed
\* maps of the checkpoint file.
C10_OneEntryPerFile ==
  /\ DOMAIN disk.processed \cap DOMAIN disk.skipped = {}
  /\ DOMAIN disk.processed \cap DOMAIN disk.failed = {}
  /\ DOMAIN disk.skipped \cap DOMAIN disk.failed = {}

\* The checkpoint read at process start holds a processed or skipped entry
\* for f.
WasTerminal(f) ==
  /\ diskAtStart.status = "valid"
  /\ (f \in DOMAIN diskAtStart.processed \/ f \in DOMAIN diskAtStart.skipped)

\* C11: a file with a processed or skipped entry in the checkpoint is not
\* parsed by the run, none of its messages is submitted, and the entry stays
\* in the checkpoint file as it was.
C11_ProcessedSkippedTerminal ==
  \A f \in Files :
    WasTerminal(f) =>
      /\ Running =>
           /\ outcome[f] \in {"none", "already_processed", "already_skipped"}
           /\ \A o \in AllOffsets : att[f][o] = 0
      /\ f \in DOMAIN diskAtStart.processed =>
           /\ f \in DOMAIN disk.processed
           /\ disk.processed[f] = diskAtStart.processed[f]
      /\ f \in DOMAIN diskAtStart.skipped =>
           /\ f \in DOMAIN disk.skipped
           /\ disk.skipped[f] = diskAtStart.skipped[f]

\* C12 as stated: a file with fewer than MIN_MESSAGES messages that the loop
\* of a run (no dry run) has handled without a read error is recorded
\* skipped in the checkpoint, has no processed or failed entry, and none of
\* its messages was submitted.
C12_SmallFileRecordedSkipped ==
  \A f \in Files :
    (Running /\ ~DRY_RUN /\ fileMsgs[f] < MIN_MESSAGES
       /\ outcome[f] \notin {"none", "parse_error"}) =>
      /\ f \in DOMAIN disk.skipped
      /\ f \notin DOMAIN disk.processed
      /\ f \notin DOMAIN disk.failed
      /\ \A o \in AllOffsets : att[f][o] = 0

\* C12 amended: no message of a file with fewer than MIN_MESSAGES messages
\* is submitted; the loop records it neither processed (a processed entry
\* comes from the legacy import only) nor batch_failed (a failed entry comes
\* from a read error only); when the loop reads it and --since does not cut
\* it off, it is recorded skipped, in the checkpoint file too unless the run
\* is a dry run; a run that loaded a skipped entry for it does not parse it.
C12_SmallFileNeverSubmitted ==
  \A f \in Files :
    (Running /\ fileMsgs[f] < MIN_MESSAGES) =>
      /\ \A o \in AllOffsets : att[f][o] = 0
      /\ outcome[f] \notin {"embedding", "processed", "batch_failed"}
      /\ f \in DOMAIN state.processed => state.processed[f] = LegacyEntry
      /\ f \in DOMAIN state.failed => state.failed[f].reason = "parse_error"
      /\ outcome[f] = "min_messages" =>
           /\ f \in DOMAIN state.skipped
           /\ ~DRY_RUN => f \in DOMAIN disk.skipped
      /\ f \in DOMAIN loadState(diskAtStart).skipped =>
           outcome[f] \in {"none", "already_skipped"}

\* C12 witness: a completed run found a small file already skipped, which an
\* earlier run had recorded, and the other file went to the sink.
C12_Witness ==
  /\ pc = "done" /\ ~DRY_RUN
  /\ \E f \in Files :
       /\ fileMsgs[f] < MIN_MESSAGES
       /\ outcome[f] = "already_skipped"
       /\ f \in DOMAIN disk.skipped
       /\ disk.skipped[f].reason = "min_messages"
  /\ stats.messagesEmbedded > 0

\* backfill() returned: the promise resolved, the catch of lines 549-552
\* did not run and the exit code is 0.
NormalExit == pc = "done"

\* The step decided that the file at idx failed (read error or a finally
\* failed batch).
FileFailedStep ==
  /\ pc \in {"loop", "batch"}
  /\ idx \in Files
  /\ outcome[idx] \notin {"parse_error", "batch_failed"}
  /\ outcome'[idx] \in {"parse_error", "batch_failed"}

\* C16: a step that decides a file failed records a failed entry for it (in
\* the checkpoint file too unless the run is a dry run), counts it and goes
\* on with the next file; a finished run without --limit has handled every
\* file; and every started run ends with a normal exit.
C16_FileFailureDoesNotAbort ==
  /\ [][FileFailedStep =>
          /\ idx \in DOMAIN state'.failed
          /\ ~DRY_RUN => idx \in DOMAIN disk'.failed
          /\ stats'.filesFailed = stats.filesFailed + 1
          /\ idx' = idx + 1
          /\ pc' = "loop"]_vars
  /\ []((NormalExit /\ ~LIMIT.set) => \A f \in Files : outcome[f] # "none")
  /\ []((pc \in {"loop", "batch"}) => <>NormalExit)

\* C16 witness: a run exited normally after a file's batch finally failed
\* and the next file was processed.
C16_Witness ==
  /\ NormalExit
  /\ outcome[1] = "batch_failed"
  /\ 1 \in DOMAIN disk.failed
  /\ outcome[2] = "processed"

\* The step made one fetch call.
Fetched == \E f \in Files : \E o \in AllOffsets : att'[f][o] = att[f][o] + 1

\* A 4xx response other than 429 whose body carries no rate-limit phrasing.
PlainClientError(r) ==
  /\ r.kind = "http"
  /\ r.status >= 400 /\ r.status <= 499 /\ r.status # 429
  /\ ~r.rlText

\* C17: an attempt answered by a plain client error is the batch's last: the
\* batch is finally failed in that step, the file loop goes on, and the
\* delay, the retries counter and the rate-limit-hits counter are unchanged.
C17_ClientErrorNotRetried ==
  [][PlainClientError(lastFailure') =>
       /\ Fetched
       /\ i \in failedOff'[idx]
       /\ stats'.batchesFailed = stats.batchesFailed + 1
       /\ pc' = "loop"
       /\ rateLimitMs' = rateLimitMs
       /\ stats'.retries = stats.retries
       /\ stats'.rateLimitHits = stats.rateLimitHits]_vars

\* C17 witness: after two retried attempts the third attempt of a batch was
\* answered by a plain client error and the batch is finally failed.
C17_Witness ==
  /\ PlainClientError(lastFailure)
  /\ pc = "loop"
  /\ \E f \in Files : \E o \in AllOffsets :
       /\ att[f][o] = 3
       /\ o \in failedOff[f]
  /\ stats.retries = 2

\* An HTTP response with a 5xx status.
ServerError(r) == r.kind = "http" /\ r.status >= 500

\* What follows a retried attempt: the loop stays at the same batch with the
\* next attempt number, one retry is counted, and sleep() was awaited with
\* the current delay.
RetryFollows ==
  /\ pc' = "batch" /\ idx' = idx /\ i' = i
  /\ attempt' = attempt + 1
  /\ stats'.retries = stats.retries + 1
  /\ sleptMs' = rateLimitMs'

\* C18 as stated: a 5xx response on an attempt before the last is retried
\* after a sleep, leaves the delay unchanged and counts no rate-limit hit.
C18_ServerErrorRetriedAtSameDelay ==
  [][(ServerError(lastFailure') /\ attempt < maxAttempts) =>
       /\ RetryFollows
       /\ rateLimitMs' = rateLimitMs
       /\ stats'.rateLimitHits = stats.rateLimitHits]_vars

\* C18 amended: a 5xx response on an attempt before the last is retried
\* after a sleep of the current delay, and the next step is the next fetch
\* of the same batch; when its body carries no rate-limit phrasing the delay
\* is unchanged and no rate-limit hit is counted, otherwise the response
\* counts as rate limited.
C18_ServerErrorRetried ==
  /\ [][(ServerError(lastFailure') /\ attempt < maxAttempts) =>
          /\ RetryFollows
          /\ ~lastFailure'.rlText =>
               /\ rateLimitMs' = rateLimitMs
               /\ stats'.rateLimitHits = stats.rateLimitHits
          /\ lastFailure'.rlText =>
               /\ rateLimitMs' = NextDelay(rateLimitMs)
               /\ stats'.rateLimitHits = stats.rateLimitHits + 1]_vars
  /\ [][(ServerError(lastFailure) /\ pc = "batch") =>
          att'[idx][i] = att[idx][i] + 1]_vars

\* C18 witness: the fourth attempt of a batch was answered by a 5xx response
\* without rate-limit phrasing and the fifth attempt is about to be made.
C18_Witness ==
  /\ ServerError(lastFailure) /\ ~lastFailure.rlText
  /\ pc = "batch"
  /\ attempt = maxAttempts
  /\ att[idx][i] = maxAttempts - 1
  /\ sleptMs = rateLimitMs

\* C19: every fetch is made right after a sleep of the current delay.
C19_SleepBeforeEveryAttempt ==
  [][Fetched => sleptMs = rateLimitMs]_vars

\* C20: with --limit N the loop of a run processes at most N files, and
\* once N files are processed nothing more is parsed, submitted or recorded
\* in that run.
C20_LimitCapsProcessed ==
  /\ []((Running /\ LIMIT.set) =>
          /\ stats.filesProcessed <= LIMIT.val
          /\ Cardinality({f \in Files : outcome[f] \in {"embedding", "processed"}}) <= LIMIT.val
          /\ Cardinality(NewlyProcessed) <= LIMIT.val)
  /\ [][(Running /\ LIMIT.set /\ stats.filesProcessed >= LIMIT.val
            /\ run' = run /\ pc' # "crashed") =>
          UNCHANGED <<outcome, att, state, disk, stats>>]_vars

\* C20 witness: a run with --limit N ended with N files processed and a
\* later file, which would have been embedded, untouched.
C20_Witness ==
  /\ pc = "done" /\ LIMIT.set
  /\ stats.filesProcessed = LIMIT.val
  /\ idx <= NumFiles
  /\ \E f \in Files :
       /\ outcome[f] = "none"
       /\ fileMsgs[f] >= MIN_MESSAGES
       /\ f \notin DOMAIN state.processed
       /\ f \notin DOMAIN state.skipped

\* The cursor STATE_FILE holds for f, NoCursor when it holds none.
DiskCursor(f) == lastTsOf(captureLoadState(legacy), f)

\* C13: the cursors recorded for a file in STATE_FILE, in the order in which
\* the auto-capture runs recorded them, never decrease.
C13_CursorNeverDecreases ==
  \A f \in Files :
    \A j, k \in 1..Len(cursorLog[f]) :
      j < k => cursorLog[f][j] <= cursorLog[f][k]

\* C14: no auto-capture run extracts a timestamped message entry that an
\* earlier run extracted and submitted.
C14_NoMessageExtractedTwice ==
  cpc = "batches" =>
    \A k \in 1..Len(cMsgs) :
      sessLog[cFile][cMsgs[k].pos] # NoTs => cMsgs[k].pos \notin sentBefore[cFile]

\* C15: after an auto-capture run every timestamped message entry that was
\* submitted in a batch the sink has not accepted is still ahead of the
\* cursor recorded for its file, so that the next run extracts it.
C15_CursorAdvancedOnlyOnSuccess ==
  cpc = "exited" =>
    \A f \in Files : \A p \in unaccepted[f] :
      sessLog[f][p] # NoTs => ~alreadyCaptured(sessLog[f][p], DiskCursor(f))

\* ------------------------------------------------------------------ C21
\* A step that starts a run: the module's top level, loadState included.
RunStarts == pc \in {"idle", "done", "crashed", "fatal"} /\ run' = run + 1

\* The files the legacy capture state lists.
LegacyListed == IF legacy.status = "valid" THEN DOMAIN legacy.processedFiles ELSE {}

\* C21: loading the checkpoint is never fatal.  Whatever STATE_PATH holds
\* when a run starts, the run goes on to its file loop (only a kill during
\* the legacy import's save can stop it).  From a missing or unparsable
\* file the run starts with empty skipped and failed maps and a processed
\* map that holds nothing but legacy imports; from a valid file the skipped
\* and failed maps are the persisted ones and every persisted processed
\* entry is kept as it was, the legacy imports being the only additions.
C21_LoadNeverFatal ==
  [][RunStarts =>
       /\ pc' \in {"loop", "crashed"}
       /\ pc' = "crashed" => LegacyAdded(loadState(disk), legacy) # {}
       /\ disk.status # "valid" =>
            /\ state'.skipped = EmptyMap
            /\ state'.failed = EmptyMap
            /\ DOMAIN state'.processed \subseteq LegacyListed
            /\ \A f \in DOMAIN state'.processed : state'.processed[f] = LegacyEntry
       /\ disk.status = "valid" =>
            /\ state'.skipped = disk.skipped
            /\ state'.failed = disk.failed
            /\ DOMAIN disk.processed \subseteq DOMAIN state'.processed
            /\ \A f \in DOMAIN disk.processed : state'.processed[f] = disk.processed[f]
            /\ DOMAIN state'.processed \subseteq DOMAIN disk.processed \cup LegacyListed]_vars

\* C21 witness: a second run has started from a checkpoint that an earlier
\* run left unparsable after it had recorded files, and it is in its file
\* loop with an empty state.
C21_Witness ==
  /\ run = 2
  /\ pc = "loop"
  /\ idx = 1
  /\ stats.filesSeen = 0
  /\ diskAtStart = CorruptFile
  /\ everProcessed # {}
  /\ state = EmptyState

\* ------------------------------------------------------------------ C22
\* The legacy import left map m of the loaded state as it was.
KeptByImport(before, after) ==
  /\ DOMAIN before \subseteq DOMAIN after
  /\ \A f \in DOMAIN before : after[f] = before[f]

\* C22: the legacy import is non-destructive.  At the start of a run every
\* processed, skipped and failed entry of the loaded state is in the merged
\* state unchanged, the skipped and failed maps gain nothing and the
\* processed map gains import entries only; and while the run is in progress
\* no file the legacy state file lists is parsed or submitted: the loop
\* passes it as already processed or already skipped.
C22_LegacyImportNonDestructive ==
  /\ [][RunStarts =>
         LET loaded == loadState(disk)
         IN /\ KeptByImport(loaded.processed, state'.processed)
            /\ state'.skipped = loaded.skipped
            /\ state'.failed = loaded.failed
            /\ \A f \in DOMAIN state'.processed \ DOMAIN loaded.processed :
                 f \in LegacyListed /\ state'.processed[f] = LegacyEntry]_vars
  /\ [](pc \in {"loop", "batch"} =>
          \A f \in LegacyListed :
            /\ outcome[f] \in {"none", "already_processed", "already_skipped"}
            /\ \A o \in AllOffsets : att[f][o] = 0
            /\ f \in DOMAIN state.processed \cup DOMAIN state.skipped)

\* C22 witness: a run passed one file as already processed on the strength
\* of its import entry, while the entry the loop had written earlier for
\* another file the legacy file also lists is still the loop's own.
C22_Witness ==
  /\ pc \in {"loop", "batch"}
  /\ \E f, g \in LegacyListed :
       /\ outcome[f] = "already_processed"
       /\ state.processed[f] = LegacyEntry
       /\ g \in DOMAIN state.processed
       /\ state.processed[g] # LegacyEntry

\* ------------------------------------------------------------------ C23
\* One run that nothing kills and no response fails, over every state of
\* the configured directories, with and without a legacy state file that
\* lists a session file.
DirCfg ==
  [dry |-> BOOLEAN, limit |-> {NoFlag}, since |-> {FALSE}, delay |-> DelayFlags,
   runs |-> 1, kill |-> {FALSE}, faults |-> 0]

LegacyListing(S) == [status |-> "valid", processedFiles |-> [f \in S |-> 1]]

InitDirs ==
  /\ fileMsgs \in [Files -> MsgCounts]
  /\ fileMeta = [f \in Files |-> "new"]
  /\ dirs \in [DirNames -> DirStates]
  /\ disk = MissingFile
  /\ legacy \in {LegacyMissing, LegacyListing({1})}
  /\ sessLog = [f \in Files |-> << >>]
  /\ clock = 1
  /\ InitProcess

NextDirs ==
  \/ StartRun(DirCfg)
  \/ AlreadyProcessed
  \/ MinSkip(DirCfg)
  \/ StartEmbed
  \/ DryEmbed
  \/ SubmitAccepted
  \/ RecordProcessed(DirCfg)
  \/ Finish

SpecDirs == InitDirs /\ [][NextDirs]_vars

NoneReadable == \A d \in DirNames : dirs[d] # "readable"

\* C23: once a run has started, if none of the configured directories is
\* readable the process has ended with exit code 1 and STATE_PATH is as it
\* was when the process started; a directory that cannot be listed ends the
\* run in the same way, and a missing directory next to a readable one
\* does not.
C23_NoReadableDirIsFatal ==
  pc # "idle" =>
    /\ NoneReadable =>
         /\ pc = "fatal"
         /\ exitCode = 1
         /\ disk = diskAtStart
    /\ ListingThrows(dirs) => pc = "fatal" /\ exitCode = 1
    /\ (~NoneReadable /\ ~ListingThrows(dirs)) => pc # "fatal"

\* ------------------------------------------------------------------ C24
\* One run at the default delay that nothing kills, over every response
\* sequence up to MaxRateFaults failed attempts.
TermCfg ==
  [dry |-> {FALSE}, limit |-> {NoFlag}, since |-> {FALSE}, delay |-> {NoFlag},
   runs |-> 1, kill |-> {FALSE}, faults |-> MaxRateFaults]

NextTerm ==
  \/ StartRun(TermCfg)
  \/ ParseError(TermCfg)
  \/ MinSkip(TermCfg)
  \/ StartEmbed
  \/ SubmitAccepted
  \/ SubmitRetried(TermCfg)
  \/ SubmitFinallyFailed(TermCfg)
  \/ RecordProcessed(TermCfg)
  \/ Finish

\* The event loop runs a process that is not killed: some step of it is
\* taken whenever one is enabled.
SpecTerm == InitRate /\ [][NextTerm]_vars /\ WF_vars(NextTerm)

\* The run is past its startup and has not ended.
InFileLoop == pc \in {"loop", "batch"}

\* C24: a run that has passed startup terminates with its summary.  Whatever
\* the files hold and whatever the sink answers, a run that is in its file
\* loop eventually ends normally, having written a stats file that holds
\* every counter of the run as it stands at the end and the delay the run
\* ended with; and no stats file is written before the run has ended.
C24_RunEndsWithSummary ==
  /\ InFileLoop ~> (pc = "done" /\ summary = statsFile(stats, rateLimitMs))
  /\ [](summary.written => pc = "done")
  /\ [](pc = "done" =>
          /\ summary.written
          /\ summary.finalDelayMs = rateLimitMs
          /\ DOMAIN summary.stats = DOMAIN ZeroStats
          /\ \A k \in DOMAIN ZeroStats : summary.stats[k] = stats[k])

\* C24 witness: a run ended with its summary after a batch had used up all
\* its attempts, a file had been recorded failed and the delay had been
\* raised by a rate-limited response.
C24_Witness ==
  /\ pc = "done"
  /\ summary.written
  /\ summary.stats.batchesFailed > 0
  /\ summary.stats.filesFailed > 0
  /\ summary.stats.filesProcessed > 0
  /\ summary.stats.rateLimitHits > 0
  /\ summary.finalDelayMs > initialDelayMs

\* ------------------------------------------------------------------ C25
RECURSIVE SumOf(_, _)
\* The sum of fn over the set S.
SumOf(fn, S) ==
  IF S = {} THEN 0
  ELSE LET x == CHOOSE y \in S : TRUE IN fn[x] + SumOf(fn, S \ {x})

\* Fetch calls made for file f in this run.
FetchesFor(f) == SumOf(att[f], AllOffsets)

\* File f had one rate-limited response on one of its batches, the retry of
\* that batch was accepted and so were all its other batches at their first
\* attempt; the run met no other failure.
OneRateLimitThenAccepted(f) ==
  /\ pc = "done"
  /\ acc[f] = Offsets(fileMsgs[f])
  /\ acc[f] # {}
  /\ FetchesFor(f) = Cardinality(acc[f]) + 1
  /\ faults = 1
  /\ stats.rateLimitHits = 1

\* C25: when one batch of a file was answered with a rate-limited response
\* once and accepted on the retry, and every other batch was accepted, then
\* at the end of the run the file is recorded processed, the embedded
\* counter holds all its messages (and those of the other processed files),
\* one retry and one rate-limit hit are counted, and the delay is strictly
\* greater than the delay the run started with.
C25_RateLimitOnceThenProcessed ==
  \A f \in Files :
    OneRateLimitThenAccepted(f) =>
      /\ f \in DOMAIN state.processed
      /\ state.processed[f].messages = fileMsgs[f]
      /\ stats.messagesEmbedded = SumOf(fileMsgs, {g \in Files : outcome[g] = "processed"})
      /\ outcome[f] = "processed"
      /\ stats.retries >= 1
      /\ stats.rateLimitHits >= 1
      /\ rateLimitMs > initialDelayMs

\* ------------------------------------------------------------------ C26
\* A second process of the backfill script runs against the same STATE_PATH
\* while the first one does.  It is the same program; its work on one file
\* (parse, batches, record, save) is taken as one step, since the file
\* system sees nothing of it but the save.

\* Lines 70-153: the second process starts: loadState, the legacy import and
\* its save.
OtherStart ==
  /\ other.pc = "off"
  /\ \E lim \in LimitFlags :
       LET loaded == loadState(disk)
           merged == mergeLegacyCaptureState(loaded, legacy)
           imported == LegacyAdded(loaded, legacy) # {}
       IN /\ other' = [pc |-> "loop", state |-> merged, idx |-> 1, limit |-> lim,
                       filesProcessed |-> 0, outcome |-> NoOutcome]
          /\ disk' = IF imported THEN saveState(FALSE, merged, disk, run + 1) ELSE disk
          /\ everProcessed' = IF imported THEN everProcessed \cup DOMAIN merged.processed
                              ELSE everProcessed
  /\ UNCHANGED <<fileMsgs, fileMeta, dirs, legacy, pc, run, flagVars, rateLimitMs,
                 summary, state, stats, idx, i, attempt, att, acc, failedOff, outcome,
                 faults, lastRL, lastFailure, sleptMs, diskAtStart, prev, captureVars>>

\* The entry the second process records for file f when the sink accepted
\* all its batches (ok) or refused one: map, entry and the name of the outcome.
OtherRecord(f, ok) ==
  IF tooFew(fileMsgs[f])
  THEN [map |-> "skipped", outcome |-> "min_messages",
        entry |-> [reason |-> "min_messages", messages |-> fileMsgs[f]]]
  ELSE IF ok
  THEN [map |-> "processed", outcome |-> "processed",
        entry |-> [groupId |-> getGroupId(fileMeta[f]), messages |-> fileMsgs[f]]]
  ELSE [map |-> "failed", outcome |-> "batch_failed",
        entry |-> [reason |-> "batch_failed", messages |-> fileMsgs[f]]]

\* Lines 369-491: one pass of the second process's file loop.
OtherFile ==
  /\ other.pc = "loop"
  /\ other.idx <= NumFiles
  /\ ~LimitReached(other.filesProcessed, other.limit)
  /\ \E ok \in BOOLEAN :
       LET f == other.idx
           rec == OtherRecord(f, ok)
           st == IF rec.map = "processed"
                 THEN [other.state EXCEPT !.processed = Put(@, f, rec.entry),
                                          !.failed = Del(@, f)]
                 ELSE IF rec.map = "skipped"
                 THEN [other.state EXCEPT !.skipped = Put(@, f, rec.entry)]
                 ELSE [other.state EXCEPT !.failed = Put(@, f, rec.entry)]
       IN IF isProcessed(other.state, f) \/ isSkipped(other.state, f)
          THEN /\ other' = [other EXCEPT
                              !.idx = @ + 1,
                              !.outcome[f] = IF isProcessed(other.state, f)
                                             THEN "already_processed"
                                             ELSE "already_skipped"]
               /\ UNCHANGED <<disk, everProcessed>>
          ELSE /\ other' = [other EXCEPT
                              !.idx = @ + 1,
                              !.state = st,
                              !.outcome[f] = rec.outcome,
                              !.filesProcessed = IF rec.map = "processed" THEN @ + 1 ELSE @]
               /\ disk' = saveState(FALSE, st, disk, run)
               /\ everProcessed' = everProcessed \cup DOMAIN st.processed
  /\ UNCHANGED <<fileMsgs, fileMeta, dirs, legacy, pc, run, flagVars, rateLimitMs,
                 summary, state, stats, idx, i, attempt, att, acc, failedOff, outcome,
                 faults, lastRL, lastFailure, sleptMs, diskAtStart, prev, captureVars>>

\* Lines 370-371 and 505-546: the second process's loop ends.
OtherFinish ==
  /\ other.pc = "loop"
  /\ (other.idx > NumFiles \/ LimitReached(other.filesProcessed, other.limit))
  /\ other' = [other EXCEPT !.pc = "done"]
  /\ UNCHANGED <<fileMsgs, fileMeta, dirs, disk, legacy, pc, run, flagVars, rateLimitMs,
                 summary, state, stats, idx, i, attempt, att, acc, failedOff, outcome,
                 faults, lastRL, lastFailure, sleptMs, diskAtStart, everProcessed, prev,
                 captureVars>>

\* One run of each process on a fresh checkpoint; every file holds one batch
\* and the first process meets no failure.
TwoCfg ==
  [dry |-> {FALSE}, limit |-> LimitFlags, since |-> {FALSE}, delay |-> DelayFlags,
   runs |-> 1, kill |-> {FALSE}, faults |-> 0]

InitTwo ==
  /\ fileMsgs = [f \in Files |-> MIN_MESSAGES]
  /\ fileMeta = [f \in Files |-> "new"]
  /\ dirs = AllReadable
  /\ disk = MissingFile
  /\ legacy = LegacyMissing
  /\ sessLog = [f \in Files |-> << >>]
  /\ clock = 1
  /\ InitProcess

NextTwo ==
  \/ StartRun(TwoCfg)
  \/ AlreadyProcessed
  \/ StartEmbed
  \/ SubmitAccepted
  \/ RecordProcessed(TwoCfg)
  \/ Finish
  \/ OtherStart
  \/ OtherFile
  \/ OtherFinish

SpecTwo == InitTwo /\ [][NextTwo]_vars

\* The outcomes a run writes a checkpoint entry for, and the map it goes to.
RecordedOutcomes == {"processed", "min_messages", "batch_failed", "parse_error"}
HasEntry(d, f) == f \in DOMAIN d.processed \cup DOMAIN d.skipped \cup DOMAIN d.failed

\* C26: two runs against the same checkpoint file lose no outcome.  When
\* both processes have ended, every file either of them recorded has an
\* entry in STATE_PATH, and every file either of them recorded processed has
\* a processed entry there.
C26_NoLostOutcome ==
  (pc = "done" /\ other.pc = "done") =>
    \A f \in Files :
      /\ (outcome[f] \in RecordedOutcomes \/ other.outcome[f] \in RecordedOutcomes)
           => HasEntry(disk, f)
      /\ (outcome[f] = "processed" \/ other.outcome[f] = "processed")
           => f \in DOMAIN disk.processed

\* ------------------------------------------------------------------ C27
\* Session lines of a file as the group id sees them: dated, without a
\* timestamp field, or no session line at all.
GroupMetas == Metas \cup {"none", "undated"}

\* Between two auto-capture runs a day passes; no file changes.
DayPasses ==
  /\ cpc \in {"idle", "exited"}
  /\ clock < MaxClock
  /\ clock' = clock + 1
  /\ UNCHANGED <<backfillVars, legacy, sessLog, captures, cpc, cState, todo, cFile,
                 cMsgs, cI, sentBefore, sentNow, unaccepted, cursorLog, groupLog>>

\* One historical run and the auto-capture runs of several days over session
\* files that do not change; nothing is killed and the sink accepts.
GroupCfg ==
  [dry |-> {FALSE}, limit |-> {NoFlag}, since |-> {FALSE}, delay |-> DelayFlags,
   runs |-> 1, kill |-> {FALSE}, faults |-> 0]

InitGroup ==
  /\ fileMsgs = [f \in Files |-> MIN_MESSAGES]
  /\ fileMeta \in {[f \in Files |-> m] : m \in GroupMetas}
  /\ dirs = AllReadable
  /\ disk = MissingFile
  /\ legacy = LegacyMissing
  /\ sessLog = [f \in Files |-> [k \in 1..MIN_MESSAGES |-> 1]]
  /\ clock = 2
  /\ InitProcess

NextGroup ==
  \/ StartRun(GroupCfg)
  \/ AlreadyProcessed
  \/ StartEmbed
  \/ SubmitAccepted
  \/ RecordProcessed(GroupCfg)
  \/ Finish
  \/ CaptureStart
  \/ CaptureNothingNew
  \/ CaptureExtract
  \/ CaptureBatch
  \/ CaptureAdvance
  \/ CaptureSave(FALSE)
  \/ DayPasses

SpecGroup == InitGroup /\ [][NextGroup]_vars

\* C27: the group id of a file is the same in every run.  The auto-capture
\* runs, whatever the day, submit a file under one group id only, and it is
\* the group id under which the historical run submits the file and records
\* it processed.
C27_GroupKeyDeterministic ==
  \A f \in Files :
    /\ Cardinality(groupLog[f]) <= 1
    /\ (pc = "batch" /\ idx = f) =>
         \A g \in groupLog[f] : g = getGroupId(fileMeta[f])
    /\ (f \in DOMAIN state.processed /\ state.processed[f] # LegacyEntry) =>
         \A g \in groupLog[f] : g = state.processed[f].groupId

\* ------------------------------------------------------------------ C28
\* C28: in an auto-capture run the cursor of a file is persisted before the
\* run moves on to the next file.  Every step that leaves the batch loop of
\* a file for the file loop leaves STATE_FILE readable and holding, for that
\* file, the cursor the run has just set in its memory.
C28_CursorPersistedPerFile ==
  [][(cpc = "batches" /\ cpc' = "files") =>
       /\ legacy'.status = "valid"
       /\ cFile \in DOMAIN legacy'.processedFiles
       /\ legacy'.processedFiles[cFile] = cState'[cFile]]_vars

\* ------------------------------------------------------------------ C29
\* The sizes of the batches of a file of n messages, by offset.
BatchSizes(n) == [o \in Offsets(n) |-> BatchLen(n, o)]

\* The batches the step submits: the (file, offset) pairs it fetches for.
FetchedNow == {fo \in Files \X AllOffsets : att'[fo[1]][fo[2]] # att[fo[1]][fo[2]]}

\* C29: the messages of a file are submitted as consecutive batches, in
\* order and one at a time.  The batches start at the offsets 0, 5, 10, ...
\* below the message count; each holds BATCH_SIZE messages except the last,
\* which holds between 1 and BATCH_SIZE, and together they hold every
\* message once.  A batch is attempted only when every batch before it was
\* accepted, a step makes at most one fetch, for the batch at hand, and a
\* file recorded processed had all its batches accepted.
C29_BatchesInOrder ==
  /\ [](\A f \in Files :
          LET n == fileMsgs[f]
          IN /\ \A o \in AllOffsets :
                  att[f][o] > 0 =>
                    /\ o \in Offsets(n)
                    /\ \A o2 \in Offsets(n) : o2 < o => o2 \in acc[f]
             /\ acc[f] \subseteq Offsets(n)
             /\ \A o \in Offsets(n) :
                  /\ BatchLen(n, o) \in 1..BATCH_SIZE
                  /\ o + BATCH_SIZE < n => BatchLen(n, o) = BATCH_SIZE
                  /\ o + BatchLen(n, o) \in Offsets(n) \cup {n}
             /\ SumOf(BatchSizes(n), Offsets(n)) = n
             /\ outcome[f] = "processed" => acc[f] = Offsets(n))
  /\ [][/\ Cardinality(FetchedNow) <= 1
        /\ \A fo \in FetchedNow :
             /\ fo = <<idx, i>>
             /\ pc = "batch"
             /\ att'[fo[1]][fo[2]] = att[fo[1]][fo[2]] + 1]_vars

\* C29 witness: a file of more than BATCH_SIZE messages was recorded
\* processed after its first batch of BATCH_SIZE and its last, shorter batch
\* were accepted, the last one at a retry.
C29_Witness ==
  \E f \in Files :
    /\ outcome[f] = "processed"
    /\ fileMsgs[f] = BATCH_SIZE + MaxExtra
    /\ acc[f] = {0, BATCH_SIZE}
    /\ BatchLen(fileMsgs[f], BATCH_SIZE) = MaxExtra
    /\ att[f][0] = 1
    /\ att[f][BATCH_SIZE] > 1

\* ------------------------------------------------------------------ C30
\* The batches of file f that this run has counted in batchesSent: the
\* accepted ones, and in a dry run the ones embedBatch has passed.
CountedBatches(f) ==
  IF ~DRY_RUN THEN acc[f]
  ELSE IF outcome[f] = "processed" THEN Offsets(fileMsgs[f])
  ELSE IF outcome[f] = "embedding" /\ pc = "batch" /\ idx = f
       THEN {o \in Offsets(fileMsgs[f]) : o < i}
  ELSE {}

\* The messages of file f in the batches counted.
CountedMessages == [f \in Files |-> SumOf(BatchSizes(fileMsgs[f]), CountedBatches(f))]
CountedBatchCount == [f \in Files |-> Cardinality(CountedBatches(f))]

\* C30: the counters of a historical run are consistent.  Between two files
\* and at the end of the run every file seen is counted in exactly one of
\* processed, skipped, failed, already processed and already skipped; at
\* every moment of the run the embedded messages are no more than the
\* extracted ones and are the messages of the batches counted as sent.
C30_CountersConsistent ==
  pc \in {"loop", "batch", "done"} =>
    /\ pc \in {"loop", "done"} =>
         stats.filesSeen = stats.filesProcessed + stats.filesSkipped + stats.filesFailed
                           + stats.filesAlreadyProcessed + stats.filesAlreadySkipped
    /\ stats.filesSeen <= stats.filesTotal
    /\ stats.messagesEmbedded <= stats.messagesExtracted
    /\ stats.messagesEmbedded = SumOf(CountedMessages, Files)
    /\ stats.batchesSent = SumOf(CountedBatchCount, Files)

\* C30 witness: a second run is over that found one file already processed
\* and recorded the other failed after one of its two batches was accepted:
\* fewer messages embedded than extracted.
C30_Witness ==
  /\ pc = "done"
  /\ run = MaxRuns
  /\ stats.filesSeen = stats.filesAlreadyProcessed + stats.filesFailed
  /\ stats.filesAlreadyProcessed = 1
  /\ stats.filesFailed = 1
  /\ stats.batchesSent = 1
  /\ stats.messagesEmbedded = BATCH_SIZE
  /\ stats.messagesExtracted = BATCH_SIZE + MaxExtra

====
